---- MODULE Spec2Model ----
(***************************************************************************)
(* A model of the vtquery worker (src/src/vtquery.cpp): one query is       *)
(* executed by Worker::Execute (tile traversal, filters, radius cutoff,    *)
(* dedupe, bounded sorted result set, property materialization) and        *)
(* delivered by Worker::OnOK (GeoJSON FeatureCollection).                  *)
(*                                                                         *)
(* A feature's geometry is represented by what the closest-point kernel    *)
(* answers for it against the query point (cp: x, y, distance in tile      *)
(* units, taken relative to the query point).  Doubles are small integers. *)
(***************************************************************************)
EXTENDS Integers, Sequences, FiniteSets, TLC

\* ------------------------------------------------------------------ bounds
MaxFeatures == 3
MaxLimit == 2
MaxTiles == 2
MaxLayers == 2
MaxOffers == 6
PoolSize == 2

\* ------------------------------------------------------- program constants
\* enum GeomType { point, linestring, polygon, all, unknown }
point == 0
linestring == 1
polygon == 2
all == 3
unknown == 4

GeomTypeStrings == <<"point", "linestring", "polygon", "unknown">>

\* std::numeric_limits<double>::max(), the distance of an unused slot
DoubleMax == 1000000

\* what a read past the end of GeomTypeStrings may yield
OutOfBoundsStrings == {"point", "unknown", "<garbage>"}

\* ---------------------------------------------------------------- helpers
Abs(n) == IF n < 0 THEN -n ELSE n

\* lexicographic order on traversal positions <<tile, layer, feature>>
EncBefore(a, b) ==
    \/ a[1] < b[1]
    \/ a[1] = b[1] /\ a[2] < b[2]
    \/ a[1] = b[1] /\ a[2] = b[2] /\ a[3] < b[3]

\* ------------------------------------------------------------- uint64 ids
\* A uint64_t is written as three digits <<d2, d1, d0>> of the value
\* d2 * 2^48 + d1 * 2^24 + d0 (d2 < 2^16, d1 < 2^24, d0 < 2^24); a
\* JavaScript number that is a whole number is written the same way.
Digit == 2^24

Uint64(n) == <<0, 0, n>>

RECURSIVE BitLen(_)
BitLen(n) == IF n = 0 THEN 0 ELSE 1 + BitLen(n \div 2)

\* feature_obj.Set("id", feature.id): the uint64_t becomes a JavaScript
\* number, a double with 53 significant bits; a value of more bits is
\* rounded to the nearest double, a tie to the one with an even last bit
NumberOfUint64(id) ==
    LET s == IF BitLen(id[1]) > 5 THEN BitLen(id[1]) - 5 ELSE 0
        unit == 2^s
        r == id[3] % unit
        odd == (id[3] \div unit) % 2 = 1
        up == s > 0 /\ (2 * r > unit \/ (2 * r = unit /\ odd))
        d0 == id[3] - r + (IF up THEN unit ELSE 0)
        d1 == id[2] + (d0 \div Digit)
    IN <<id[1] + (d1 \div Digit), d1 % Digit, d0 % Digit>>

\* ------------------------------------------------------------ ResultObject
\* enc is a history field: the traversal position of the feature stored in
\* the slot (<<0,0,0>> for an unused slot); the code has no such field.
NewResultObject ==
    [properties_vector |-> <<>>,
     properties_vector_materialized |-> <<>>,
     layer_name |-> "",
     coordinates |-> [x |-> 0, y |-> 0],
     distance |-> DoubleMax,
     original_geometry_type |-> unknown,
     has_id |-> FALSE,
     id |-> Uint64(0),
     enc |-> <<0, 0, 0>>]

\* --------------------------------------------------------------- geometry
get_geometry_type(f) ==
    CASE f.geometry_type = "POINT" -> point
      [] f.geometry_type = "LINESTRING" -> linestring
      [] f.geometry_type = "POLYGON" -> polygon
      [] OTHER -> unknown

\* extract_geometry yields the empty geometry for a feature of unknown type,
\* and the kernel answers an empty geometry with distance -1.
closest_point(f) ==
    IF get_geometry_type(f) = unknown
    THEN [x |-> 0, y |-> 0, distance |-> -1]
    ELSE f.cp

\* tile-local snap point -> lon/lat (cp is relative to the query point)
convert_vt_to_ll(d, cp_info) ==
    [x |-> d.longitude + cp_info.x, y |-> d.latitude + cp_info.y]

\* zero for identical points, symmetric
distance_in_meters(a, b) == Abs(a.x - b.x) + Abs(a.y - b.y)

\* variant: ties compare as smaller
CompareDistance_le(r1, r2) == r1.distance <= r2.distance
CompareDistance(r1, r2) == r1.distance < r2.distance

\* ------------------------------------------------------------ stable sort
RECURSIVE SortedInsert(_, _)
SortedInsert(s, r) ==
    IF s = <<>> THEN <<r>>
    ELSE IF CompareDistance(r, s[Len(s)])
         THEN Append(SortedInsert(SubSeq(s, 1, Len(s) - 1), r), s[Len(s)])
         ELSE Append(s, r)

RECURSIVE StableSort(_)
StableSort(s) ==
    IF s = <<>> THEN <<>>
    ELSE SortedInsert(StableSort(SubSeq(s, 1, Len(s) - 1)), s[Len(s)])

\* ---------------------------------------------------------- result set ops
\* variant: the slot keeps the id and has_id it had
insert_result_keep_id(old_result, props_vec, layer_name, pt, distance, geom_type, has_id, id, enc) ==
    [old_result EXCEPT
        !.properties_vector = props_vec,
        !.layer_name = layer_name,
        !.coordinates = pt,
        !.distance = distance,
        !.original_geometry_type = geom_type,
        !.enc = enc]

insert_result(old_result, props_vec, layer_name, pt, distance, geom_type, has_id, id, enc) ==
    [old_result EXCEPT
        !.properties_vector = props_vec,
        !.layer_name = layer_name,
        !.coordinates = pt,
        !.distance = distance,
        !.original_geometry_type = geom_type,
        !.has_id = has_id,
        !.id = id,
        !.enc = enc]

get_properties_vector(f) == f.properties

value_is_duplicate(r, candidate_feature, candidate_layer, candidate_geom, candidate_props_vec) ==
    IF r.layer_name # candidate_layer THEN FALSE
    ELSE IF r.original_geometry_type # candidate_geom THEN FALSE
    ELSE IF r.has_id /\ candidate_feature.has_id /\ r.id # candidate_feature.id THEN FALSE
    ELSE r.properties_vector = candidate_props_vec

\* variant: the scan goes on to the last slot that is a duplicate
FirstDuplicate_last(q, feature, layer_name, geom, props_vec) ==
    LET hits == {i \in 1..Len(q) :
                    value_is_duplicate(q[i], feature, layer_name, geom, props_vec)}
    IN IF hits = {} THEN 0 ELSE CHOOSE i \in hits : \A j \in hits : i >= j

\* index of the first slot that is a duplicate of the candidate, 0 if none
FirstDuplicate(q, feature, layer_name, geom, props_vec) ==
    LET hits == {i \in 1..Len(q) :
                    value_is_duplicate(q[i], feature, layer_name, geom, props_vec)}
    IN IF hits = {} THEN 0 ELSE CHOOSE i \in hits : \A j \in hits : i <= j

\* variant: the layer filter is ignored
LayerWanted_any(d, layer_name) == TRUE
LayerWanted(d, layer_name) ==
    d.layers = <<>> \/ \E i \in 1..Len(d.layers) : d.layers[i] = layer_name

GeometryWanted(d, geom) ==
    ~(d.geometry_filter_type # all /\ d.geometry_filter_type # geom)

\* variant: no safety check on the kernel's distance
NegativeDistance_never(cp_info) == FALSE
NegativeDistance(cp_info) == cp_info.distance < 0

\* variant: no radius cutoff
OutsideRadius_never(d, meters) == FALSE
OutsideRadius(d, meters) == meters > d.radius

\* variant: a duplicate is overwritten whatever its distance
DuplicateReplaces_always(meters, result) == TRUE

\* variant: the first instance of a duplicate is kept
DuplicateReplaces_never(meters, result) == FALSE
DuplicateReplaces(meters, result) == meters <= result.distance

\* variant: every candidate without duplicate replaces the back slot
CloserThanBack_always(meters, q) == TRUE

\* variant: a candidate as far as the back slot replaces it
CloserThanBack_le(meters, q) == meters <= q[Len(q)].distance
CloserThanBack(meters, q) == meters < q[Len(q)].distance

\* lon/lat and meters of the candidate: the query point itself on a direct
\* hit, else the converted snap point and its distance from the query point
\* variant: latitude first
QueryLngLat_swapped(d) == [x |-> d.latitude, y |-> d.longitude]

\* query_lnglat: the request's (lon, lat) as a point, longitude in x
QueryLngLat(d) == [x |-> d.longitude, y |-> d.latitude]

Snap(d, cp_info) ==
    LET query_lnglat == QueryLngLat(d)
        ll == IF cp_info.distance > 0 THEN convert_vt_to_ll(d, cp_info) ELSE query_lnglat
    IN [ll |-> ll,
        meters |-> IF cp_info.distance > 0 THEN distance_in_meters(query_lnglat, ll) ELSE 0]

\* variant: no sort after a duplicate was replaced
ResortAfterDuplicate_none(q) == q

\* std::stable_sort after a duplicate was replaced
ResortAfterDuplicate(q) == StableSort(q)

\* variant: no sort after the back slot was replaced
ResortAfterInsert_none(q) == q

\* std::stable_sort after the back slot was replaced
ResortAfterInsert(q) == StableSort(q)

\* The body of the feature loop: the result set after offering one feature.
ProcessFeature(q, d, layer_name, feature, enc) ==
    LET original_geometry_type == get_geometry_type(feature)
        cp_info == closest_point(feature)
        ll == Snap(d, cp_info).ll
        meters == Snap(d, cp_info).meters
        properties_vec == get_properties_vector(feature)
        dup == IF d.dedupe
               THEN FirstDuplicate(q, feature, layer_name, original_geometry_type, properties_vec)
               ELSE 0
    IN
    IF ~GeometryWanted(d, original_geometry_type) THEN q
    ELSE IF NegativeDistance(cp_info) THEN q
    ELSE IF OutsideRadius(d, meters) THEN q
    ELSE IF dup # 0 THEN
        IF DuplicateReplaces(meters, q[dup])
        THEN ResortAfterDuplicate([q EXCEPT ![dup] =
                insert_result(q[dup], properties_vec, layer_name, ll, meters,
                              original_geometry_type, feature.has_id, feature.id, enc)])
        ELSE q
    ELSE IF CloserThanBack(meters, q)
        THEN ResortAfterInsert([q EXCEPT ![Len(q)] =
                insert_result(q[Len(q)], properties_vec, layer_name, ll, meters,
                              original_geometry_type, feature.has_id, feature.id, enc)])
        ELSE q

\* Worker::Execute as one function: the result set after the whole traversal.
RECURSIVE OfferFeatures(_, _, _, _, _, _)
OfferFeatures(q, d, t, l, features, k) ==
    IF k > Len(features) THEN q
    ELSE OfferFeatures(ProcessFeature(q, d, d.tiles[t][l].name, features[k], <<t, l, k>>),
                       d, t, l, features, k + 1)

RECURSIVE OfferLayers(_, _, _, _)
OfferLayers(q, d, t, l) ==
    IF l > Len(d.tiles[t]) THEN q
    ELSE OfferLayers(IF LayerWanted(d, d.tiles[t][l].name)
                     THEN OfferFeatures(q, d, t, l, d.tiles[t][l].features, 1)
                     ELSE q,
                     d, t, l + 1)

RECURSIVE OfferTiles(_, _, _)
OfferTiles(q, d, t) ==
    IF t > Len(d.tiles) THEN q
    ELSE OfferTiles(OfferLayers(q, d, t, 1), d, t + 1)

\* variant: one slot too many
EmptyQueue_extra(d) == [i \in 1..(d.num_results + 1) |-> NewResultObject]
EmptyQueue(d) == [i \in 1..d.num_results |-> NewResultObject]

\* --------------------------------------------------------- materialization
\* vtzero value kind -> mapbox::feature::value alternative
convert_property_value(v) ==
    [type |-> CASE v.type \in {"float_value", "double_value"} -> "double"
                [] v.type \in {"int_value", "sint_value"} -> "int64_t"
                [] v.type = "uint_value" -> "uint64_t"
                [] v.type = "bool_value" -> "bool"
                [] OTHER -> "string",
     value |-> v.value]

Materialize(r) ==
    [r EXCEPT !.properties_vector_materialized =
        [i \in 1..Len(r.properties_vector) |->
            <<r.properties_vector[i].key,
              convert_property_value(r.properties_vector[i].value)>>]]

\* ------------------------------------------------------------------ output
getGeomTypeString(enumVal, garbage) ==
    IF enumVal + 1 \in DOMAIN GeomTypeStrings THEN GeomTypeStrings[enumVal + 1] ELSE garbage

IsLive(r) == r.distance < DoubleMax

\* variant: the properties are converted from the lazy views in OnOK
FeatureObject_lazy(r, garbage) ==
    [type |-> "Feature",
     id |-> NumberOfUint64(r.id),
     geometry |-> [type |-> "Point", coordinates |-> <<r.coordinates.x, r.coordinates.y>>],
     properties |-> [i \in 1..Len(r.properties_vector) |->
                        <<r.properties_vector[i].key,
                          convert_property_value(r.properties_vector[i].value)>>],
     tilequery |-> [distance |-> r.distance,
                    geometry |-> getGeomTypeString(r.original_geometry_type, garbage),
                    layer |-> r.layer_name],
     enc |-> r.enc]

\* one GeoJSON feature, as OnOK builds it
FeatureObject(r, garbage) ==
    [type |-> "Feature",
     id |-> NumberOfUint64(r.id),
     geometry |-> [type |-> "Point", coordinates |-> <<r.coordinates.x, r.coordinates.y>>],
     properties |-> r.properties_vector_materialized,
     tilequery |-> [distance |-> r.distance,
                    geometry |-> getGeomTypeString(r.original_geometry_type, garbage),
                    layer |-> r.layer_name],
     enc |-> r.enc]

\* features_array.Set(index, obj) for the live slots only: index i-1 of the
\* array is slot i; a slot that is not live leaves a hole.
Hole == [type |-> "<hole>"]

\* variant: every slot is written to the array
FeaturesArray_all(q, garbage) == [i \in 1..Len(q) |-> FeatureObject(q[i], garbage)]

FeaturesArray(q, garbage) ==
    LET live == {i \in 1..Len(q) : IsLive(q[i])}
        n == IF live = {} THEN 0 ELSE CHOOSE i \in live : \A j \in live : j <= i
    IN [i \in 1..n |-> IF IsLive(q[i]) THEN FeatureObject(q[i], garbage) ELSE Hole]

\* ------------------------------------------------------- request arguments
\* JavaScript values of a call; a number is value (+ 1/2 when half is set)
JsUndefined == [type |-> "undefined"]
JsNull == [type |-> "null"]
JsFunction == [type |-> "function"]
JsBoolean(b) == [type |-> "boolean", bool |-> b]
JsNumber(n) == [type |-> "number", value |-> n, half |-> FALSE]
JsNumberAndHalf(n) == [type |-> "number", value |-> n, half |-> TRUE]
JsString(str) == [type |-> "string", str |-> str]
JsArray(items) == [type |-> "array", items |-> items]
JsObject(props) == [type |-> "object", props |-> props]
JsBuffer(bytes) == [type |-> "buffer", bytes |-> bytes]

IsObject(v) == v.type \in {"object", "array", "function", "buffer"}
Has(v, key) == v.type = "object" /\ key \in DOMAIN v.props
Get(v, key) == IF Has(v, key) THEN v.props[key] ELSE JsUndefined

\* Napi::Number::Int32Value for numbers within the int32 range: truncation
Int32Value(v) == IF v.half /\ v.value < 0 THEN v.value + 1 ELSE v.value

\* Napi::Value::ToNumber as a double, for whole numbers
ToNumber(v) == v.value

\* info[i], undefined past the last argument
Arg(args, i) == IF i + 1 <= Len(args) THEN args[i + 1] ELSE JsUndefined

\* QueryData as its constructor leaves it
NewQueryData ==
    [tiles |-> <<>>, compression |-> <<>>, layers |-> <<>>,
     latitude |-> 0, longitude |-> 0, radius |-> 0,
     num_results |-> 5, dedupe |-> TRUE, geometry_filter_type |-> all]

\* ------------------------------------------------------------- validation
\* each check answers the message of its first failure, "" if it passes

CallbackMissing(args) == Len(args) = 0 \/ args[Len(args)].type # "function"

CoordinateError(tile_obj, key) ==
    IF ~Has(tile_obj, key)
    THEN "item in 'tiles' array does not include a '" \o key \o "' value"
    ELSE IF Get(tile_obj, key).type # "number"
    THEN "'" \o key \o "' value in 'tiles' array item is not an int32"
    ELSE IF Int32Value(Get(tile_obj, key)) < 0
    THEN "'" \o key \o "' value must not be less than zero"
    ELSE ""

TileError(tile_val) ==
    IF ~IsObject(tile_val) THEN "items in 'tiles' array must be objects"
    ELSE IF ~Has(tile_val, "buffer")
    THEN "item in 'tiles' array does not include a buffer value"
    ELSE IF Get(tile_val, "buffer").type \in {"null", "undefined"}
    THEN "buffer value in 'tiles' array item is null or undefined"
    ELSE IF Get(tile_val, "buffer").type # "buffer"
    THEN "buffer value in 'tiles' array item is not a true buffer"
    ELSE IF CoordinateError(tile_val, "z") # "" THEN CoordinateError(tile_val, "z")
    ELSE IF CoordinateError(tile_val, "x") # "" THEN CoordinateError(tile_val, "x")
    ELSE CoordinateError(tile_val, "y")

TilesError(args) ==
    LET tiles_val == Arg(args, 0)
        failing == {t \in 1..Len(tiles_val.items) : TileError(tiles_val.items[t]) # ""}
    IN IF tiles_val.type # "array" THEN "first arg 'tiles' must be an array of tile objects"
       ELSE IF Len(tiles_val.items) <= 0 THEN "'tiles' array must be of length greater than 0"
       ELSE IF failing = {} THEN ""
       ELSE TileError(tiles_val.items[CHOOSE t \in failing : \A u \in failing : t <= u])

LngLatError(args) ==
    LET lnglat_val == Arg(args, 1)
    IN IF lnglat_val.type # "array"
       THEN "second arg 'lnglat' must be an array with [longitude, latitude] values"
       ELSE IF Len(lnglat_val.items) # 2
       THEN "'lnglat' must be an array of [longitude, latitude]"
       ELSE IF lnglat_val.items[1].type # "number" \/ lnglat_val.items[2].type # "number"
       THEN "lnglat values must be numbers"
       ELSE ""

DedupeError(options) ==
    IF Has(options, "dedupe") /\ Get(options, "dedupe").type # "boolean"
    THEN "'dedupe' must be a boolean" ELSE ""

RadiusError(options) ==
    IF ~Has(options, "radius") THEN ""
    ELSE IF Get(options, "radius").type # "number" THEN "'radius' must be a number"
    ELSE IF ToNumber(Get(options, "radius")) < 0 THEN "'radius' must be a positive number"
    ELSE ""

\* variant: the upper bound is exclusive
LimitTooLarge_ge(num_results) == num_results >= 1000
LimitTooLarge(num_results) == num_results > 1000

LimitError(options) ==
    IF ~Has(options, "limit") THEN ""
    ELSE IF Get(options, "limit").type # "number" THEN "'limit' must be a number"
    ELSE IF Int32Value(Get(options, "limit")) < 1 THEN "'limit' must be 1 or greater"
    ELSE IF LimitTooLarge(Int32Value(Get(options, "limit")))
    THEN "'limit' must be less than 1000"
    ELSE ""

LayersError(options) ==
    LET layers_val == Get(options, "layers")
    IN IF ~Has(options, "layers") THEN ""
       ELSE IF layers_val.type # "array" THEN "'layers' must be an array of strings"
       ELSE IF \E j \in 1..Len(layers_val.items) :
                  /\ layers_val.items[j].type # "string"
                  /\ \A i \in 1..(j - 1) : layers_val.items[i].type = "string"
                                           /\ layers_val.items[i].str # ""
       THEN "'layers' values must be strings"
       ELSE IF \E j \in 1..Len(layers_val.items) :
                  layers_val.items[j].type = "string" /\ layers_val.items[j].str = ""
       THEN "'layers' values must be non-empty strings"
       ELSE ""

GeometryError(options) ==
    LET geometry_val == Get(options, "geometry")
    IN IF ~Has(options, "geometry") THEN ""
       ELSE IF geometry_val.type # "string" THEN "'geometry' option must be a string"
       ELSE IF geometry_val.str = "" THEN "'geometry' value must be a non-empty string"
       ELSE IF geometry_val.str \notin {"point", "linestring", "polygon"}
       THEN "'geometry' must be 'point', 'linestring', or 'polygon'"
       ELSE ""

\* variant: the options argument is never looked at
HasOptions_never(args) == FALSE
HasOptions(args) == Len(args) > 3

OptionsError(args) ==
    LET options == Arg(args, 2)
    IN IF ~HasOptions(args) THEN ""
       ELSE IF ~IsObject(options) THEN "'options' arg must be an object"
       ELSE IF DedupeError(options) # "" THEN DedupeError(options)
       ELSE IF RadiusError(options) # "" THEN RadiusError(options)
       ELSE IF LimitError(options) # "" THEN LimitError(options)
       ELSE IF LayersError(options) # "" THEN LayersError(options)
       ELSE GeometryError(options)

\* variant: the options are checked before the tiles and the query point
ValidationError_options_first(args) ==
    IF OptionsError(args) # "" THEN OptionsError(args)
    ELSE IF TilesError(args) # "" THEN TilesError(args)
    ELSE LngLatError(args)

\* the message of the first check that fails, in the order of the code
ValidationError(args) ==
    IF TilesError(args) # "" THEN TilesError(args)
    ELSE IF LngLatError(args) # "" THEN LngLatError(args)
    ELSE OptionsError(args)

GeomTypeOfString(str) ==
    CASE str = "point" -> point
      [] str = "linestring" -> linestring
      [] OTHER -> polygon

\* the QueryData of a call that passed every check: the tiles' bytes (how
\* they are compressed, and the layers they decode to), the query point, and
\* every option that is present; an absent option keeps the constructor's
\* value
BuildQueryData(args) ==
    LET items == Arg(args, 0).items
        options == IF HasOptions(args) THEN Arg(args, 2) ELSE JsUndefined
    IN [tiles |-> [t \in 1..Len(items) |-> Get(items[t], "buffer").bytes.layers],
        compression |-> [t \in 1..Len(items) |-> Get(items[t], "buffer").bytes.compression],
        longitude |-> ToNumber(Arg(args, 1).items[1]),
        latitude |-> ToNumber(Arg(args, 1).items[2]),
        dedupe |-> IF Has(options, "dedupe") THEN Get(options, "dedupe").bool
                   ELSE NewQueryData.dedupe,
        radius |-> IF Has(options, "radius") THEN ToNumber(Get(options, "radius"))
                   ELSE NewQueryData.radius,
        num_results |-> IF Has(options, "limit") THEN Int32Value(Get(options, "limit"))
                        ELSE NewQueryData.num_results,
        layers |-> IF Has(options, "layers")
                   THEN [j \in 1..Len(Get(options, "layers").items) |->
                            Get(options, "layers").items[j].str]
                   ELSE NewQueryData.layers,
        geometry_filter_type |->
            IF Has(options, "geometry") THEN GeomTypeOfString(Get(options, "geometry").str)
            ELSE NewQueryData.geometry_filter_type]

\* ------------------------------------------------------------------- state
\* info: the arguments of the call; data: the QueryData built from them;
\* pc, ti, li, fi, in_layer: where the call and its worker stand;
\* buffers, buffers_capacity, buffers_block: the decompressed buffers of
\* Execute, the capacity of their vector and the number of the storage block
\* the vector lives in; tiles: the tile views of Execute; error_: the message
\* given to SetError; callback_calls: the calls of the callback so far
VARIABLES info, data, pc, ti, li, fi, in_layer, results_queue_, features_array,
          buffers, buffers_capacity, buffers_block, tiles, error_, callback_calls

\* Several workers on pool threads: input_buffers are the tile buffers of the
\* caller, which the queries refer to; workers[w] is the QueryData and the
\* position of worker w; queues[w] is the results_queue_ of worker w.
VARIABLES input_buffers, workers, queues

worker_vars == <<info, data, pc, ti, li, fi, in_layer, results_queue_, features_array,
                 buffers, buffers_capacity, buffers_block, tiles, error_, callback_calls>>

pool_vars == <<input_buffers, workers, queues>>

vars == <<worker_vars, pool_vars>>

\* ------------------------------------------------------------------ inputs
Props1 == <<[key |-> "k", value |-> [type |-> "string_value", value |-> "v"]]>>
Props2 == <<[key |-> "k", value |-> [type |-> "string_value", value |-> "w"]]>>
Props12 == <<[key |-> "k", value |-> [type |-> "string_value", value |-> "v"]],
             [key |-> "n", value |-> [type |-> "sint_value", value |-> "-1"]]>>

NoId == [has_id |-> FALSE, id |-> Uint64(0)]
IdChoices == {NoId} \cup {[has_id |-> TRUE, id |-> Uint64(i)] : i \in {1, 2}}

\* kernel answers: a direct hit, a snap point a tile units east of the query
\* point, and the answer for an empty geometry
Hit == [x |-> 0, y |-> 0, distance |-> 0]
Misses == {[x |-> a, y |-> 0, distance |-> a] : a \in {1, 2}}
Degenerate == [x |-> 0, y |-> 0, distance |-> -1]
Radii == {0, 1}

Feature(g, i, p, c) ==
    [geometry_type |-> g, has_id |-> i.has_id, id |-> i.id, properties |-> p, cp |-> c]

SeqsUpTo(S, n) == UNION {[1..k -> S] : k \in 0..n}

\* Queries about the result set: the same tile supplied 1..MaxTiles times
\* (at most MaxOffers features offered in all), one layer of point features
\* that differ in id, properties and distance (a feature list of full length
\* has one property list only, and the second property list comes with one id
\* only); no filter, every candidate within the radius.
RankFeatures ==
    {Feature("POINT", i, Props1, c) : i \in IdChoices, c \in {Hit} \cup Misses}
    \cup {Feature("POINT", i, Props2, c) : i \in IdChoices \ {[has_id |-> TRUE, id |-> Uint64(2)]},
                                             c \in {Hit} \cup Misses}

RankLayers ==
    {fs \in SeqsUpTo(RankFeatures, MaxFeatures) :
        Len(fs) = MaxFeatures => \A k \in 1..Len(fs) : fs[k].properties = Props1}

RankInputs ==
    {in \in RankLayers \X (1..MaxTiles) : in[2] * Len(in[1]) <= MaxOffers}

RankQueries ==
    {[tiles |-> [t \in 1..in[2] |-> <<[name |-> "a", version |-> 2, features |-> in[1]]>>],
      compression |-> [t \in 1..in[2] |-> "none"],
      layers |-> <<>>, latitude |-> 0, longitude |-> 0, radius |-> 2,
      num_results |-> k, dedupe |-> dd, geometry_filter_type |-> all] :
        in \in RankInputs, k \in 1..MaxLimit, dd \in BOOLEAN}

\* The same queries with the features of a shorter list spread over two tiles.
SplitQueries ==
    {[tiles |-> <<<<[name |-> "a", version |-> 2, features |-> SubSeq(in[1], 1, in[2])]>>,
                  <<[name |-> "a", version |-> 2,
                     features |-> SubSeq(in[1], in[2] + 1, Len(in[1]))]>>>>,
      compression |-> <<"none", "none">>,
      layers |-> <<>>, latitude |-> 0, longitude |-> 0, radius |-> 2,
      num_results |-> k, dedupe |-> dd, geometry_filter_type |-> all] :
        in \in {i2 \in RankLayers \X (1..MaxFeatures) :
                    Len(i2[1]) < MaxFeatures /\ i2[2] < Len(i2[1])},
        k \in 1..MaxLimit, dd \in BOOLEAN}

\* the query point of the queries about the filters
QueryLon == 1
QueryLat == 2

\* Queries about the filters: one tile of 1..MaxLayers layers named a or b
\* with at most one feature each, of every geometry type and kernel answer
\* (a feature of unknown type has the empty geometry); every layer filter,
\* geometry filter and radius, with and without dedupe.
FilterFeatures ==
    {Feature(g, NoId, Props1, c) : g \in {"POINT", "POLYGON"},
                                   c \in {Degenerate, Hit, [x |-> 1, y |-> 0, distance |-> 1]}}
    \cup {Feature("UNKNOWN", NoId, Props1, Degenerate)}

FilterLayers == [name : {"a", "b"}, version : {2}, features : SeqsUpTo(FilterFeatures, 1)]

FilterQuery(ls, lf, r, gf, dd) ==
    [tiles |-> <<ls>>,
     compression |-> <<"none">>,
     layers |-> lf, latitude |-> QueryLat, longitude |-> QueryLon, radius |-> r,
     num_results |-> MaxLimit, dedupe |-> dd, geometry_filter_type |-> gf]

\* without dedupe: the queries for layer a within radius 0 that want points
\* or every geometry
FilterQueries ==
    {FilterQuery(ls, lf, r, gf, TRUE) :
        ls \in SeqsUpTo(FilterLayers, MaxLayers) \ {<<>>},
        lf \in {<<>>, <<"a">>}, r \in Radii, gf \in {all, point, polygon}}
    \cup {FilterQuery(ls, <<"a">>, 0, gf, FALSE) :
            ls \in SeqsUpTo(FilterLayers, MaxLayers) \ {<<>>}, gf \in {all, point}}

\* Queries about failures and decompressed buffers: 1..MaxTiles tiles, each
\* plain or compressed, holding one layer of up to two features (a direct hit,
\* or a feature vtzero cannot decode), or a layer of a version vtzero does
\* not know, or compressed bytes that do not decompress, or a compressed tile
\* of so few bytes (no layer) that the decompressed string may keep them in
\* its own storage.
FaultFeatures ==
    {Feature("POINT", [has_id |-> TRUE, id |-> Uint64(1)], Props12, Hit),
     Feature("INVALID", [has_id |-> TRUE, id |-> Uint64(1)], Props1, Hit)}

FaultTiles ==
    {[compression |-> c, layers |-> <<[name |-> "a", version |-> 2, features |-> fs]>>] :
        c \in {"none", "gzip"}, fs \in SeqsUpTo(FaultFeatures, 2)}
    \cup {[compression |-> c, layers |-> <<[name |-> "a", version |-> 3, features |-> <<>>]>>] :
            c \in {"none", "gzip"}}
    \cup {[compression |-> c, layers |-> <<>>] : c \in {"gzip_short", "gzip_corrupt"}}

\* Queries about ids of more than 53 bits: one tile of one layer with one
\* feature, a direct hit, whose id is 2^53, one of the three ids after it, or
\* the largest uint64_t.
WideIds ==
    {<<32, 0, n>> : n \in 0..3} \cup {<<2^16 - 1, Digit - 1, Digit - 1>>}

WideIdQueries ==
    {[tiles |-> <<(<<[name |-> "a", version |-> 2,
                     features |-> <<Feature("POINT", [has_id |-> TRUE, id |-> i],
                                            Props1, Hit)>>]>>)>>,
      compression |-> <<"none">>,
      layers |-> <<>>, latitude |-> 0, longitude |-> 0, radius |-> 0,
      num_results |-> 1, dedupe |-> TRUE, geometry_filter_type |-> all] :
        i \in WideIds}

FaultQueries ==
    {[tiles |-> [t \in 1..Len(ts) |-> ts[t].layers],
      compression |-> [t \in 1..Len(ts) |-> ts[t].compression],
      layers |-> <<>>, latitude |-> 0, longitude |-> 0, radius |-> 0,
      num_results |-> 1, dedupe |-> TRUE, geometry_filter_type |-> all] :
        ts \in SeqsUpTo(FaultTiles, MaxTiles) \ {<<>>}}

\* the call that asks for the query d, every option given (but geometry when
\* every geometry is wanted: the option has no value for that)
TileArg(bytes) ==
    JsObject([buffer |-> JsBuffer(bytes), z |-> JsNumber(0), x |-> JsNumber(0), y |-> JsNumber(0)])

OptionsArg(d) ==
    IF d.geometry_filter_type = all
    THEN JsObject([dedupe |-> JsBoolean(d.dedupe), radius |-> JsNumber(d.radius),
                   limit |-> JsNumber(d.num_results),
                   layers |-> JsArray([j \in 1..Len(d.layers) |-> JsString(d.layers[j])])])
    ELSE JsObject([dedupe |-> JsBoolean(d.dedupe), radius |-> JsNumber(d.radius),
                   limit |-> JsNumber(d.num_results),
                   layers |-> JsArray([j \in 1..Len(d.layers) |-> JsString(d.layers[j])]),
                   geometry |-> JsString(GeomTypeStrings[d.geometry_filter_type + 1])])

CallOf(d) ==
    <<JsArray([t \in 1..Len(d.tiles) |->
                  TileArg([compression |-> d.compression[t], layers |-> d.tiles[t]])]),
      JsArray(<<JsNumber(d.longitude), JsNumber(d.latitude)>>),
      OptionsArg(d),
      JsFunction>>

\* Calls about validation: a tiles argument, a query point and options that
\* are right or wrong in one place each, with and without the options
\* argument and the callback; the one tile of a valid call has no layer.
LimitMax == 1000

EmptyTile == TileArg([compression |-> "none", layers |-> <<>>])

BadCoordinates == {JsUndefined, JsString("0"), JsNumber(-1)}

BadTileVals ==
    {JsNumber(1),
     JsObject([z |-> JsNumber(0), x |-> JsNumber(0), y |-> JsNumber(0)]),
     JsObject([buffer |-> JsNull, z |-> JsNumber(0), x |-> JsNumber(0), y |-> JsNumber(0)]),
     JsObject([buffer |-> JsString("b"), z |-> JsNumber(0), x |-> JsNumber(0), y |-> JsNumber(0)]),
     JsObject([buffer |-> EmptyTile.props.buffer, x |-> JsNumber(0), y |-> JsNumber(0)]),
     JsObject([buffer |-> EmptyTile.props.buffer, z |-> JsNumber(0), y |-> JsNumber(0)]),
     JsObject([buffer |-> EmptyTile.props.buffer, z |-> JsNumber(0), x |-> JsNumber(0)])}
    \cup {[EmptyTile EXCEPT !.props.z = v] : v \in BadCoordinates \ {JsUndefined}}
    \cup {[EmptyTile EXCEPT !.props.x = v] : v \in BadCoordinates \ {JsUndefined}}
    \cup {[EmptyTile EXCEPT !.props.y = v] : v \in BadCoordinates \ {JsUndefined}}

TilesVals ==
    {JsArray(<<EmptyTile>>), JsNumber(1), JsArray(<<>>)}
    \cup {JsArray(<<EmptyTile, bad>>) : bad \in BadTileVals}

LngLatVals ==
    {JsArray(<<JsNumber(QueryLon), JsNumber(QueryLat)>>),
     JsString("1,2"),
     JsArray(<<JsNumber(QueryLon)>>),
     JsArray(<<JsNumber(QueryLon), JsString("2")>>)}

LimitVals ==
    {JsNumber(n) : n \in {-1, 0, 1, 2, LimitMax, LimitMax + 1}}
    \cup {JsNumberAndHalf(0), JsNumberAndHalf(LimitMax), JsString("5")}

OptionsVals ==
    {JsNumber(1), JsObject([other |-> JsNull])}
    \cup {JsObject([dedupe |-> v]) : v \in {JsBoolean(FALSE), JsString("no")}}
    \cup {JsObject([radius |-> v]) : v \in {JsNumber(1), JsNumber(-1), JsString("1")}}
    \cup {JsObject([limit |-> v]) : v \in LimitVals}
    \cup {JsObject([layers |-> v]) :
            v \in {JsString("a"), JsArray(<<>>), JsArray(<<JsString("a")>>),
                   JsArray(<<JsString("a"), JsNumber(1), JsString("")>>),
                   JsArray(<<JsString("a"), JsString(""), JsNumber(1)>>)}}
    \cup {JsObject([geometry |-> v]) :
            v \in {JsNumber(1), JsString(""), JsString("all"),
                   JsString("point"), JsString("linestring"), JsString("polygon")}}

ValidationCalls ==
    {<<t, l, o, JsFunction>> : t \in TilesVals, l \in LngLatVals, o \in OptionsVals}
    \cup {<<t, l, JsFunction>> : t \in TilesVals, l \in LngLatVals}
    \cup {<<>>, <<JsFunction>>, <<JsArray(<<EmptyTile>>), JsFunction>>,
          <<JsArray(<<EmptyTile>>), JsArray(<<JsNumber(QueryLon), JsNumber(QueryLat)>>),
            JsObject([other |-> JsNull])>>}

Init ==
    /\ \/ info \in {CallOf(d) : d \in RankQueries}
       \/ info \in {CallOf(d) : d \in SplitQueries}
       \/ info \in {CallOf(d) : d \in FilterQueries}
       \/ info \in {CallOf(d) : d \in FaultQueries}
       \/ info \in {CallOf(d) : d \in WideIdQueries}
       \/ info \in ValidationCalls
    /\ data = NewQueryData
    /\ pc = "called"
    /\ ti = 0
    /\ li = 0
    /\ fi = 0
    /\ in_layer = FALSE
    /\ results_queue_ = <<>>
    /\ features_array = <<>>
    /\ buffers = <<>>
    /\ buffers_capacity = 0
    /\ buffers_block = 0
    /\ tiles = <<>>
    /\ error_ = ""
    /\ callback_calls = <<>>
    /\ input_buffers = <<>>
    /\ workers = <<>>
    /\ queues = <<>>

\* ------------------------------------------------------------------ memory
\* where the characters of the string buffers[b] are: in the string's own
\* storage, which lies in the vector's current storage block, or in a heap
\* block of their own, which moves with the string
StringData(b, local, block) ==
    IF local THEN [region |-> "vector", block |-> block, index |-> b]
    ELSE [region |-> "heap", block |-> 0, index |-> b]

InputData(t) == [region |-> "input", block |-> 0, index |-> t]

\* the view still points at the bytes it was made for
ViewValid(view) ==
    \/ view.buffer = 0
    \/ /\ view.buffer \in 1..Len(buffers)
       /\ view.data = StringData(view.buffer, buffers[view.buffer].local, buffers_block)

\* what reading a tile through a view that points at freed storage may do
DanglingOutcomes == {"intact", "ends", "throws"}

\* what a lazy property view reads once the storage it points into is freed
FreedProperties ==
    <<[key |-> "<freed>", value |-> [type |-> "string_value", value |-> "<freed>"]]>>

\* ----------------------------------------------------------------- actions
\* vtquery(): the callback is looked at first (a call without one throws);
\* the first check that fails is reported through the callback and nothing
\* is queued; a call that passes every check queues a worker with the
\* QueryData built from it; the worker has the QueryData only, not the
\* arguments.
vtquery ==
    /\ pc = "called"
    /\ UNCHANGED pool_vars
    /\ IF CallbackMissing(info)
       THEN /\ pc' = "thrown"
            /\ UNCHANGED <<info, data, callback_calls>>
       ELSE IF ValidationError(info) # ""
       THEN /\ pc' = "rejected"
            /\ callback_calls' = Append(callback_calls,
                    [error |-> ValidationError(info), result |-> JsUndefined])
            /\ UNCHANGED <<info, data>>
       ELSE /\ pc' = "queued"
            /\ data' = BuildQueryData(info)
            /\ info' = <<>>
            /\ UNCHANGED callback_calls
    /\ UNCHANGED <<ti, li, fi, in_layer, results_queue_, features_array,
                   buffers, buffers_capacity, buffers_block, tiles, error_>>

\* variant: the exception is swallowed and Execute goes on to materialize
Caught_swallowed(what) ==
    /\ pc' = "materialize"
    /\ UNCHANGED <<info, data, ti, li, fi, in_layer, results_queue_, features_array,
                   buffers, buffers_capacity, buffers_block, tiles, error_, callback_calls>>

\* catch (std::exception const& e) { SetError(e.what()); }: the locals of
\* Execute are gone, the result set stays as it is
Caught(what) ==
    /\ pc' = "failed"
    /\ error_' = what
    /\ buffers' = <<>>
    /\ buffers_capacity' = 0
    /\ tiles' = <<>>
    /\ UNCHANGED <<info, data, ti, li, fi, in_layer, results_queue_, features_array,
                   buffers_block, callback_calls>>

\* Execute, up to the tile loops: fill the result set with num_results unused
\* slots.
ExecuteStart ==
    /\ pc = "queued"
    /\ UNCHANGED pool_vars
    /\ pc' = "wrap"
    /\ results_queue_' = EmptyQueue(data)
    /\ UNCHANGED <<info, data, ti, li, fi, in_layer, features_array,
                   buffers, buffers_capacity, buffers_block, tiles, error_, callback_calls>>

\* variant: the traversal starts as soon as one tile is wrapped
AllWrapped_first(n, d) == n >= 1

\* the first tile loop has gone through every tile of the request
AllWrapped(n, d) == n = Len(d.tiles)

\* One pass of the first tile loop: a compressed tile is decompressed into a
\* new element of buffers (the vector moves to a new block when it is full)
\* and the tile view is made on that element; a plain tile is viewed in
\* place.  After the last tile the traversal starts.
WrapTile ==
    /\ pc = "wrap"
    /\ UNCHANGED pool_vars
    /\ LET t == Len(tiles) + 1
           grows == Len(buffers) = buffers_capacity
           block == IF grows THEN buffers_block + 1 ELSE buffers_block
           last == AllWrapped(t, data)
       IN IF data.compression[t] = "gzip_corrupt"
          THEN Caught("decompress")
          ELSE /\ IF data.compression[t] = "none"
                  THEN /\ tiles' = Append(tiles, [buffer |-> 0, data |-> InputData(t)])
                       /\ UNCHANGED <<buffers, buffers_capacity, buffers_block>>
                  ELSE \E local \in (IF data.compression[t] = "gzip_short"
                                     THEN BOOLEAN ELSE {FALSE}) :
                       /\ buffers' = Append(buffers, [tile |-> t, local |-> local])
                       /\ buffers_capacity' =
                            IF ~grows THEN buffers_capacity
                            ELSE IF buffers_capacity = 0 THEN 1 ELSE 2 * buffers_capacity
                       /\ buffers_block' = block
                       /\ tiles' = Append(tiles,
                            [buffer |-> Len(buffers) + 1,
                             data |-> StringData(Len(buffers) + 1, local, block)])
               /\ pc' = IF last THEN "traverse" ELSE "wrap"
               /\ ti' = IF last THEN 1 ELSE ti
               /\ UNCHANGED <<info, data, li, fi, in_layer, results_queue_, features_array,
                              error_, callback_calls>>

\* tile.next_layer(): enter the next layer of the current tile (skipping it
\* when the layer filter excludes it), or move on to the next tile, or leave
\* the tile loop after the last tile.  A layer of an unknown version throws.
NextLayer ==
    /\ pc = "traverse"
    /\ UNCHANGED pool_vars
    /\ ~in_layer
    /\ \E read \in (IF ViewValid(tiles[ti]) THEN {"intact"} ELSE DanglingOutcomes) :
        IF read = "throws" THEN Caught("decode")
        ELSE IF read = "intact" /\ li < Len(data.tiles[ti])
        THEN IF data.tiles[ti][li + 1].version \notin {1, 2}
             THEN Caught("layer version")
             ELSE /\ li' = li + 1
                  /\ in_layer' = LayerWanted(data, data.tiles[ti][li + 1].name)
                  /\ fi' = 0
                  /\ UNCHANGED <<info, data, pc, ti, results_queue_, features_array, buffers,
                                 buffers_capacity, buffers_block, tiles, error_,
                                 callback_calls>>
        ELSE /\ li' = 0
             /\ in_layer' = FALSE
             /\ fi' = 0
             /\ IF ti < Len(data.tiles)
                THEN ti' = ti + 1 /\ pc' = pc
                ELSE ti' = ti /\ pc' = "materialize"
             /\ UNCHANGED <<info, data, results_queue_, features_array, buffers,
                            buffers_capacity, buffers_block, tiles, error_, callback_calls>>

\* layer.next_feature(): one pass through the body of the feature loop, or
\* the end of the layer.  A feature that cannot be decoded throws.
NextFeature ==
    /\ pc = "traverse"
    /\ UNCHANGED pool_vars
    /\ in_layer
    /\ IF fi < Len(data.tiles[ti][li].features)
       THEN IF data.tiles[ti][li].features[fi + 1].geometry_type = "INVALID"
            THEN Caught("geometry type")
            ELSE /\ fi' = fi + 1
                 /\ in_layer' = TRUE
                 /\ results_queue_' =
                      ProcessFeature(results_queue_, data, data.tiles[ti][li].name,
                                     data.tiles[ti][li].features[fi + 1], <<ti, li, fi + 1>>)
                 /\ UNCHANGED <<info, data, pc, ti, li, features_array, buffers,
                                buffers_capacity, buffers_block, tiles, error_, callback_calls>>
       ELSE /\ fi' = fi
            /\ in_layer' = FALSE
            /\ UNCHANGED <<info, data, pc, ti, li, results_queue_, features_array, buffers,
                           buffers_capacity, buffers_block, tiles, error_, callback_calls>>

\* the last loop of Execute: owned properties for every slot
MaterializeAll ==
    /\ pc = "materialize"
    /\ UNCHANGED pool_vars
    /\ pc' = "materialized"
    /\ results_queue_' = [i \in 1..Len(results_queue_) |-> Materialize(results_queue_[i])]
    /\ UNCHANGED <<info, data, ti, li, fi, in_layer, features_array, buffers,
                   buffers_capacity, buffers_block, tiles, error_, callback_calls>>

\* the end of the try block: the tile views and the decompressed buffers are
\* destroyed, and with them whatever the lazy property views of a slot filled
\* from a compressed tile point at
ExecuteEnd ==
    /\ pc = "materialized"
    /\ UNCHANGED pool_vars
    /\ pc' = "executed"
    /\ buffers' = <<>>
    /\ buffers_capacity' = 0
    /\ tiles' = <<>>
    /\ results_queue_' =
         [i \in 1..Len(results_queue_) |->
            IF IsLive(results_queue_[i]) /\ data.compression[results_queue_[i].enc[1]] # "none"
            THEN [results_queue_[i] EXCEPT !.properties_vector = FreedProperties]
            ELSE results_queue_[i]]
    /\ UNCHANGED <<info, data, ti, li, fi, in_layer, features_array, buffers_block,
                   error_, callback_calls>>

\* OnOK: every slot is popped from the back; a live slot is written to the
\* features array at its own index; the callback gets (null, results_object).
OnOK ==
    /\ pc = "executed"
    /\ UNCHANGED pool_vars
    /\ pc' = "done"
    /\ \E garbage \in OutOfBoundsStrings :
          /\ features_array' = FeaturesArray(results_queue_, garbage)
          /\ callback_calls' = Append(callback_calls,
                [error |-> "",
                 result |-> [type |-> "FeatureCollection",
                             features |-> FeaturesArray(results_queue_, garbage)]])
    /\ results_queue_' = <<>>
    /\ UNCHANGED <<info, data, ti, li, fi, in_layer, buffers, buffers_capacity,
                   buffers_block, tiles, error_>>

\* Execute has set an error: OnOK is not run, the callback gets the error alone
OnError ==
    /\ pc = "failed"
    /\ UNCHANGED pool_vars
    /\ pc' = "errored"
    /\ callback_calls' = Append(callback_calls, [error |-> error_, result |-> JsUndefined])
    /\ UNCHANGED <<info, data, ti, li, fi, in_layer, results_queue_, features_array,
                   buffers, buffers_capacity, buffers_block, tiles, error_>>

Next ==
    \/ vtquery
    \/ ExecuteStart
    \/ WrapTile
    \/ NextLayer
    \/ NextFeature
    \/ MaterializeAll
    \/ ExecuteEnd
    \/ OnOK
    \/ OnError

Spec == Init /\ [][Next]_vars

\* ------------------------------------------------------------ pool threads
\* PoolSize workers run Execute and OnOK for queries on plain tiles, one step
\* of one worker at a time, in any order.
Workers == 1..PoolSize

\* variant: one result set for all workers
QueueOf_shared(w) == 1

\* results_queue_ is a member of the worker
QueueOf(w) == w

\* the QueryData of worker w, its tiles read through the caller's buffers
PoolData(w) ==
    [workers[w].data EXCEPT
        !.tiles = [t \in 1..Len(workers[w].data.tiles) |->
                      input_buffers[workers[w].data.tiles[t]]]]

PoolBuffers ==
    <<<<[name |-> "a", version |-> 2,
         features |-> <<Feature("POINT", [has_id |-> TRUE, id |-> Uint64(1)], Props1,
                                [x |-> 1, y |-> 0, distance |-> 1]),
                        Feature("POINT", [has_id |-> TRUE, id |-> Uint64(2)], Props1, Hit)>>]>>,
      <<[name |-> "a", version |-> 2,
         features |-> <<Feature("POINT", [has_id |-> TRUE, id |-> Uint64(1)], Props1, Hit),
                        Feature("POINT", [has_id |-> TRUE, id |-> Uint64(1)], Props2,
                                [x |-> 2, y |-> 0, distance |-> 2])>>]>>>>

\* queries on the caller's buffers, by their index
PoolQueries ==
    {[tiles |-> refs, compression |-> [t \in 1..Len(refs) |-> "none"],
      layers |-> <<>>, latitude |-> 0, longitude |-> 0, radius |-> 2,
      num_results |-> k, dedupe |-> TRUE, geometry_filter_type |-> all] :
        refs \in {<<1>>, <<1, 2>>, <<2, 1>>}, k \in {1, MaxLimit}}

PoolInit ==
    /\ input_buffers = PoolBuffers
    /\ workers \in [Workers -> [data : PoolQueries, pc : {"queued"}, ti : {0}, li : {0},
                                 fi : {0}, in_layer : {FALSE}, features_array : {<<>>}]]
    /\ queues = [w \in Workers |-> <<>>]
    /\ info = <<>>
    /\ data = NewQueryData
    /\ pc = "pool"
    /\ ti = 0
    /\ li = 0
    /\ fi = 0
    /\ in_layer = FALSE
    /\ results_queue_ = <<>>
    /\ features_array = <<>>
    /\ buffers = <<>>
    /\ buffers_capacity = 0
    /\ buffers_block = 0
    /\ tiles = <<>>
    /\ error_ = ""
    /\ callback_calls = <<>>

PoolExecuteStart(w) ==
    /\ workers[w].pc = "queued"
    /\ workers' = [workers EXCEPT ![w].pc = "traverse", ![w].ti = 1]
    /\ queues' = [queues EXCEPT ![QueueOf(w)] = EmptyQueue(PoolData(w))]
    /\ UNCHANGED <<input_buffers, worker_vars>>

PoolNextLayer(w) ==
    LET d == PoolData(w)
        s == workers[w]
    IN /\ s.pc = "traverse"
       /\ ~s.in_layer
       /\ workers' = [workers EXCEPT ![w] =
            IF s.li < Len(d.tiles[s.ti])
            THEN [s EXCEPT !.li = s.li + 1, !.fi = 0,
                           !.in_layer = LayerWanted(d, d.tiles[s.ti][s.li + 1].name)]
            ELSE IF s.ti < Len(d.tiles)
            THEN [s EXCEPT !.li = 0, !.fi = 0, !.ti = s.ti + 1]
            ELSE [s EXCEPT !.li = 0, !.fi = 0, !.pc = "materialize"]]
       /\ UNCHANGED <<input_buffers, queues, worker_vars>>

PoolNextFeature(w) ==
    LET d == PoolData(w)
        s == workers[w]
    IN /\ s.pc = "traverse"
       /\ s.in_layer
       /\ IF s.fi < Len(d.tiles[s.ti][s.li].features)
          THEN /\ workers' = [workers EXCEPT ![w].fi = s.fi + 1]
               /\ queues' = [queues EXCEPT ![QueueOf(w)] =
                    ProcessFeature(queues[QueueOf(w)], d, d.tiles[s.ti][s.li].name,
                                   d.tiles[s.ti][s.li].features[s.fi + 1],
                                   <<s.ti, s.li, s.fi + 1>>)]
          ELSE /\ workers' = [workers EXCEPT ![w].in_layer = FALSE]
               /\ UNCHANGED queues
       /\ UNCHANGED <<input_buffers, worker_vars>>

PoolMaterializeAll(w) ==
    /\ workers[w].pc = "materialize"
    /\ workers' = [workers EXCEPT ![w].pc = "executed"]
    /\ queues' = [queues EXCEPT ![QueueOf(w)] =
            [i \in 1..Len(queues[QueueOf(w)]) |-> Materialize(queues[QueueOf(w)][i])]]
    /\ UNCHANGED <<input_buffers, worker_vars>>

PoolOnOK(w) ==
    /\ workers[w].pc = "executed"
    /\ \E garbage \in OutOfBoundsStrings :
          workers' = [workers EXCEPT ![w].pc = "done",
                         ![w].features_array = FeaturesArray(queues[QueueOf(w)], garbage)]
    /\ queues' = [queues EXCEPT ![QueueOf(w)] = <<>>]
    /\ UNCHANGED <<input_buffers, worker_vars>>

PoolNext ==
    \E w \in Workers :
        \/ PoolExecuteStart(w)
        \/ PoolNextLayer(w)
        \/ PoolNextFeature(w)
        \/ PoolMaterializeAll(w)
        \/ PoolOnOK(w)

PoolSpec == PoolInit /\ [][PoolNext]_vars

\* ------------------------------------------------------- reference results
\* what Execute and OnOK deliver for the query d
QueryOutput(d) ==
    LET q == OfferTiles(EmptyQueue(d), d, 1)
    IN FeaturesArray([i \in 1..Len(q) |-> Materialize(q[i])], "<garbage>")

\* the features as the caller sees them (without the history field)
Visible(fa) ==
    [i \in 1..Len(fa) |->
        IF fa[i].type = "Feature" THEN [fa[i] EXCEPT !.enc = <<0, 0, 0>>] ELSE fa[i]]

IsPrefix(s, t) == Len(s) <= Len(t) /\ \A i \in 1..Len(s) : s[i] = t[i]

LiveSlots == {i \in 1..Len(results_queue_) : IsLive(results_queue_[i])}

\* ------------------------------------------------------------------ claims

\* the duplicate relation of the dedupe contract, on two stored features
IsDuplicatePair(r1, r2) ==
    /\ r1.layer_name = r2.layer_name
    /\ r1.original_geometry_type = r2.original_geometry_type
    /\ ~(r1.has_id /\ r2.has_id /\ r1.id # r2.id)
    /\ r1.properties_vector = r2.properties_vector

\* C1: with dedupe=true no two features of the final result are duplicates of
\* each other (same layer, same geometry type, not both with ids that differ,
\* equal property lists).
C1_NoDuplicatesInOutput ==
    (pc = "executed" /\ data.dedupe) =>
        \A i \in LiveSlots : \A j \in LiveSlots :
            i < j => ~IsDuplicatePair(results_queue_[i], results_queue_[j])

\* C2: with dedupe=true the same tile supplied N times gives the same ordered
\* output as that tile supplied once.
C2_IdempotentUnderRepeatedTile ==
    (pc = "done" /\ data.dedupe /\ \A t \in 1..Len(data.tiles) : data.tiles[t] = data.tiles[1]) =>
        Visible(features_array) = Visible(QueryOutput([data EXCEPT !.tiles = <<data.tiles[1]>>]))

\* ---- output accessors
Emitted == {i \in 1..Len(features_array) : features_array[i].type = "Feature"}

Dist(i) == features_array[i].tilequery.distance

\* every feature of a tile with its layer name, in traversal order
RECURSIVE Entries(_, _)
Entries(tile, l) ==
    IF l > Len(tile) THEN <<>>
    ELSE [k \in 1..Len(tile[l].features) |-> [layer |-> tile[l].name, f |-> tile[l].features[k]]]
         \o Entries(tile, l + 1)

RECURSIVE EntriesFrom(_, _)
EntriesFrom(tile_list, t) ==
    IF t > Len(tile_list) THEN <<>>
    ELSE Entries(tile_list[t], 1) \o EntriesFrom(tile_list, t + 1)

\* every feature the query offers, in traversal order
InputEntries == EntriesFrom(data.tiles, 1)

\* the entry passes the layer filter, the geometry filter, the safety check
\* and the radius cutoff
IsCandidate(e) ==
    /\ LayerWanted(data, e.layer)
    /\ GeometryWanted(data, get_geometry_type(e.f))
    /\ ~NegativeDistance(closest_point(e.f))
    /\ ~OutsideRadius(data, Snap(data, closest_point(e.f)).meters)

C4_MonotoneLimit ==
    pc = "done" =>
        \A k \in 1..(data.num_results - 1) :
            IsPrefix(Visible(QueryOutput([data EXCEPT !.num_results = k])),
                     Visible(features_array))

\* the smaller limit cuts the output: dedupe on, full output for limit 2,
\* one feature for limit 1
C4_Witness ==
    /\ pc = "done"
    /\ data.dedupe
    /\ data.num_results = 2
    /\ Len(features_array) = 2
    /\ Len(InputEntries) >= 3
    /\ Len(QueryOutput([data EXCEPT !.num_results = 1])) = 1

\* C5: the output never holds more features than the limit.
C5_AtMostLimit ==
    pc = "done" => Len(features_array) <= data.num_results

\* more candidates than the limit were offered and the output is full
C5_Witness ==
    /\ pc = "done"
    /\ ~data.dedupe
    /\ Len(InputEntries) > data.num_results
    /\ \A k \in 1..Len(InputEntries) : IsCandidate(InputEntries[k])
    /\ Len(features_array) = data.num_results

\* C6: the output is sorted by distance, non-decreasing.
C6_SortedByDistance ==
    pc = "done" => \A i \in Emitted : \A j \in Emitted : i < j => Dist(i) <= Dist(j)

\* a feature encountered later was emitted before a farther, earlier one
C6_Witness ==
    /\ pc = "done"
    /\ \E i \in Emitted : \E j \in Emitted :
          /\ i < j
          /\ Dist(i) < Dist(j)
          /\ EncBefore(features_array[j].enc, features_array[i].enc)

\* C7: every stored and every emitted feature has a distance d with
\* 0 <= d <= radius (so with radius 0 only direct hits).
C7_WithinRadius ==
    /\ \A i \in LiveSlots : /\ 0 <= results_queue_[i].distance
                            /\ results_queue_[i].distance <= data.radius
    /\ \A i \in Emitted : 0 <= Dist(i) /\ Dist(i) <= data.radius

\* radius 0, a feature beyond the radius was offered, a direct hit was emitted
C7_Witness ==
    /\ pc = "done"
    /\ data.radius = 0
    /\ Emitted # {}
    /\ \E k \in 1..Len(InputEntries) :
          /\ LayerWanted(data, InputEntries[k].layer)
          /\ GeometryWanted(data, get_geometry_type(InputEntries[k].f))
          /\ closest_point(InputEntries[k].f).distance > 0

\* ---- C8
SameKey(e1, e2) ==
    /\ e1.layer = e2.layer
    /\ e1.f.geometry_type = e2.f.geometry_type
    /\ e1.f.has_id = e2.f.has_id
    /\ e1.f.id = e2.f.id
    /\ e1.f.properties = e2.f.properties

\* the duplicate relation of value_is_duplicate on two input entries
Related(e1, e2) ==
    /\ e1.layer = e2.layer
    /\ e1.f.geometry_type = e2.f.geometry_type
    /\ ~(e1.f.has_id /\ e2.f.has_id /\ e1.f.id # e2.f.id)
    /\ e1.f.properties = e2.f.properties

\* the emitted feature i shows the entry e
Shows(i, e) ==
    /\ features_array[i].tilequery.layer = e.layer
    /\ features_array[i].tilequery.geometry = GeomTypeStrings[get_geometry_type(e.f) + 1]
    /\ features_array[i].id = NumberOfUint64(e.f.id)
    /\ Len(features_array[i].properties) = Len(e.f.properties)
    /\ \A n \in 1..Len(e.f.properties) :
          features_array[i].properties[n][1] = e.f.properties[n].key
          /\ features_array[i].properties[n][2].value = e.f.properties[n].value.value

\* the candidates among the instances of the entry e
Instances(e) ==
    {k \in 1..Len(InputEntries) : SameKey(InputEntries[k], e) /\ IsCandidate(InputEntries[k])}

Meters(k) == Snap(data, closest_point(InputEntries[k].f)).meters

\* the entry a has an instance within the radius, and every feature offered
\* that is a duplicate of it is an instance of it
ExactClass(a) ==
    /\ Instances(InputEntries[a]) # {}
    /\ \A c \in 1..Len(InputEntries) :
          Related(InputEntries[c], InputEntries[a]) => SameKey(InputEntries[c], InputEntries[a])

C9_LayerFilter ==
    pc = "done" =>
        /\ data.layers # <<>> =>
              \A i \in Emitted :
                  \E n \in 1..Len(data.layers) :
                      features_array[i].tilequery.layer = data.layers[n]
        /\ (data.layers = <<>> /\ Len(InputEntries) <= data.num_results) =>
              \A k \in 1..Len(InputEntries) :
                  (IsCandidate(InputEntries[k]) /\ closest_point(InputEntries[k].f).distance = 0)
                    => \E i \in Emitted :
                          features_array[i].tilequery.layer = InputEntries[k].layer

\* the filter names layer a, a direct hit in layer b was skipped and a feature
\* of layer a was emitted
C9_Witness ==
    /\ pc = "done"
    /\ data.layers = <<"a">>
    /\ Emitted # {}
    /\ \E k \in 1..Len(InputEntries) :
          /\ InputEntries[k].layer = "b"
          /\ GeometryWanted(data, get_geometry_type(InputEntries[k].f))
          /\ closest_point(InputEntries[k].f).distance = 0

\* C10: with a geometry filter every emitted feature has that geometry; a
\* feature of unknown geometry type is never stored or emitted, so the
\* geometry-name table is only read at 0..2.
C10_GeometryFilter ==
    /\ \A i \in LiveSlots :
          results_queue_[i].original_geometry_type \in {point, linestring, polygon}
    /\ \A i \in Emitted :
          /\ features_array[i].tilequery.geometry \in {"point", "linestring", "polygon"}
          /\ data.geometry_filter_type # all =>
                features_array[i].tilequery.geometry
                    = GeomTypeStrings[data.geometry_filter_type + 1]

\* no geometry filter, a feature of unknown type was offered in a wanted
\* layer and another feature was emitted
C10_Witness ==
    /\ pc = "done"
    /\ data.geometry_filter_type = all
    /\ Emitted # {}
    /\ \E k \in 1..Len(InputEntries) :
          /\ LayerWanted(data, InputEntries[k].layer)
          /\ InputEntries[k].f.geometry_type = "UNKNOWN"

\* ---- C11
\* the feature at a traversal position
EntryAt(enc) == data.tiles[enc[1]][enc[2]].features[enc[3]]

IsDirectHit(f) == closest_point(f).distance = 0

Scheduled == pc \in {"queued", "wrap", "traverse", "materialize", "materialized",
                     "executed", "failed"}

Completed == pc \in {"done", "errored"}

\* the bytes of the query make Execute throw: a tile that does not
\* decompress, a layer of an unknown version, or a feature that cannot be
\* decoded in a layer that is wanted
MustFail(d) ==
    \E t \in 1..Len(d.tiles) :
        \/ d.compression[t] = "gzip_corrupt"
        \/ \E l \in 1..Len(d.tiles[t]) :
              \/ d.tiles[t][l].version \notin {1, 2}
              \/ /\ LayerWanted(d, d.tiles[t][l].name)
                 /\ \E k \in 1..Len(d.tiles[t][l].features) :
                       d.tiles[t][l].features[k].geometry_type = "INVALID"

\* the worker has a next step: it is in the feature loop, whose body is
\* defined for every feature, or one of the other steps is enabled
CanStep ==
    \/ pc = "traverse" /\ in_layer
    \/ ENABLED (ExecuteStart \/ WrapTile \/ NextLayer \/ MaterializeAll \/ ExecuteEnd
                \/ OnOK \/ OnError)

Delivered(call) == call.result.type = "FeatureCollection"

FirstFailure(args) ==
    IF TilesError(args) # "" THEN TilesError(args)
    ELSE IF LngLatError(args) # "" THEN LngLatError(args)
    ELSE OptionsError(args)

PassesEveryCheck(args) ==
    /\ ~CallbackMissing(args)
    /\ TilesError(args) = ""
    /\ LngLatError(args) = ""
    /\ OptionsError(args) = ""

\* C13: a call that fails a check is reported as an error (through the
\* callback, with the message of the first check that fails in the order
\* tiles, lnglat, options; by an exception when there is no callback) and no
\* worker is ever queued for it; a worker is queued only for a call that
\* passed every check.
C13_ValidationPrecedesScheduling ==
    /\ [](pc = "rejected" =>
            /\ ~PassesEveryCheck(info)
            /\ callback_calls = <<[error |-> FirstFailure(info), result |-> JsUndefined]>>
            /\ FirstFailure(info) # ""
            /\ results_queue_ = <<>>
            /\ ~ENABLED Next)
    /\ [](pc = "thrown" =>
            /\ CallbackMissing(info)
            /\ callback_calls = <<>>
            /\ results_queue_ = <<>>
            /\ ~ENABLED Next)
    /\ [][pc = "called" =>
            /\ PassesEveryCheck(info) <=> pc' = "queued"
            /\ pc' \in {"queued", "rejected", "thrown"}]_vars
    /\ [][pc' = "queued" => pc = "called"]_vars

\* the tiles are right, the query point and the options are both wrong, and
\* the callback got the message about the query point
C13_Witness ==
    /\ pc = "rejected"
    /\ TilesError(info) = ""
    /\ LngLatError(info) # ""
    /\ OptionsError(info) # ""
    /\ callback_calls[1].error = LngLatError(info)

\* ---- C14
\* the call has a callback, and its tiles and query point pass
ReachesOptions(args) ==
    ~CallbackMissing(args) /\ TilesError(args) = "" /\ LngLatError(args) = ""

\* the options argument of the call, when it has one and it is an object
\* whose options other than the limit pass
OptionsPassButLimit(args) ==
    /\ Len(args) > 3
    /\ IsObject(args[3])
    /\ DedupeError(args[3]) = ""
    /\ RadiusError(args[3]) = ""
    /\ LayersError(args[3]) = ""
    /\ GeometryError(args[3]) = ""

\* C14: a limit is accepted iff its int32 value is in 1..1000 (1 and 1000
\* pass, 0 and 1001 do not); a call without options runs with radius 0,
\* limit 5, dedupe true, no layer filter and every geometry, and an option
\* that the options object does not have keeps that value.
C14_LimitRangeAndDefaults ==
    /\ [](Scheduled => data.num_results \in 1..1000)
    /\ [][(pc = "called" /\ ReachesOptions(info)) =>
            /\ (OptionsPassButLimit(info) /\ Has(info[3], "limit")
                  /\ info[3].props.limit.type = "number") =>
                  /\ pc' = "queued" <=> Int32Value(info[3].props.limit) \in 1..1000
                  /\ pc' = "queued" => data'.num_results = Int32Value(info[3].props.limit)
            /\ Len(info) <= 3 =>
                  /\ pc' = "queued"
                  /\ data'.radius = 0
                  /\ data'.num_results = 5
                  /\ data'.dedupe = TRUE
                  /\ data'.layers = <<>>
                  /\ data'.geometry_filter_type = all
            /\ (Len(info) > 3 /\ pc' = "queued") =>
                  /\ ~Has(info[3], "radius") => data'.radius = 0
                  /\ ~Has(info[3], "limit") => data'.num_results = 5
                  /\ ~Has(info[3], "dedupe") => data'.dedupe = TRUE
                  /\ ~Has(info[3], "layers") => data'.layers = <<>>
                  /\ ~Has(info[3], "geometry") => data'.geometry_filter_type = all]_vars

\* a query with limit 1000 was accepted and has completed
C14_Witness ==
    /\ pc = "done"
    /\ data.num_results = LimitMax
    /\ Len(callback_calls) = 1

\* ---- C15
\* C15: with several queries running on pool threads, in every interleaving
\* each query gets the result it gets alone; a step of one worker changes
\* the position and the result set of that worker only, and the caller's tile
\* buffers are never written.
C15_IndependentQueries ==
    /\ [](\A w \in Workers :
            workers[w].pc = "done" =>
                Visible(workers[w].features_array) = Visible(QueryOutput(PoolData(w))))
    /\ [][input_buffers' = input_buffers]_vars
    /\ [][\A w \in Workers :
            (workers'[w] # workers[w] \/ queues'[w] # queues[w]) =>
                \A v \in Workers \ {w} : workers'[v] = workers[v] /\ queues'[v] = queues[v]]_vars

\* two queries on the same two buffers, taken in opposite orders, have both
\* completed, with different results
C15_Witness ==
    /\ \A w \in Workers : workers[w].pc = "done"
    /\ workers[1].data.tiles = <<1, 2>>
    /\ workers[2].data.tiles = <<2, 1>>
    /\ workers[1].features_array # <<>>
    /\ Visible(workers[1].features_array) # Visible(workers[2].features_array)

\* ---- C16
\* the owned properties that belong to the MVT property list props: one
\* entry per property, in its order, with its key and its value
OwnedOf(owned, props) ==
    /\ Len(owned) = Len(props)
    /\ \A n \in 1..Len(props) :
          /\ owned[n][1] = props[n].key
          /\ owned[n][2].value = props[n].value.value

CompressedTiles == {t \in 1..Len(data.tiles) : data.compression[t] # "none"}

\* C16: no slot has owned properties before the last tile was traversed;
\* when the owned properties are there every decompressed buffer is still
\* there, and they are the properties of the stored feature in the order of
\* the tile; what OnOK emits are these owned properties, also for a feature
\* of a compressed tile, whose lazy views are invalid by then.
C16_MaterializationOrdering ==
    /\ pc \in {"queued", "wrap", "traverse", "materialize", "failed", "errored"} =>
          \A i \in 1..Len(results_queue_) :
              results_queue_[i].properties_vector_materialized = <<>>
    /\ pc = "materialized" =>
          /\ {buffers[b].tile : b \in 1..Len(buffers)} = CompressedTiles
          /\ \A i \in LiveSlots :
                /\ results_queue_[i].properties_vector
                      = EntryAt(results_queue_[i].enc).properties
                /\ OwnedOf(results_queue_[i].properties_vector_materialized,
                           EntryAt(results_queue_[i].enc).properties)
    /\ pc = "executed" =>
          /\ buffers = <<>>
          /\ \A i \in LiveSlots :
                results_queue_[i].enc[1] \in CompressedTiles =>
                    results_queue_[i].properties_vector = FreedProperties
    /\ pc = "done" =>
          \A i \in Emitted :
              OwnedOf(features_array[i].properties, EntryAt(features_array[i].enc).properties)

\* a feature with two properties from a compressed tile was emitted
C16_Witness ==
    /\ pc = "done"
    /\ \E i \in Emitted :
          /\ features_array[i].enc[1] \in CompressedTiles
          /\ Len(features_array[i].properties) = 2
          /\ features_array[i].properties[1][1] = "k"
          /\ features_array[i].properties[2][1] = "n"

\* ---- C17
\* the views exist from the wrap loop until materialization has finished
ViewsInUse == pc \in {"wrap", "traverse", "materialize", "materialized"}

\* every decompressed string so far keeps its characters in a heap block
AllOnHeap == \A b \in 1..Len(buffers) : ~buffers[b].local

\* when no decompressed string keeps its characters in its own storage, the
\* growth of the vector moves no bytes a view points at
HeapViewsStayValid ==
    (ViewsInUse /\ AllOnHeap) => \A t \in 1..Len(tiles) : ViewValid(tiles[t])

\* C17: from the creation of a tile view until materialization has finished
\* the bytes it points at are where they were, however many compressed tiles
\* the request has and whatever their sizes.
C17_ViewsStayValid ==
    ViewsInUse => \A t \in 1..Len(tiles) : ViewValid(tiles[t])

\* ---- C18
\* the result set exists: Execute has filled it and OnOK has not emptied it
ResultSetFilled ==
    pc \in {"wrap", "traverse", "materialize", "materialized", "executed",
            "failed", "errored"}

SortedAscending(q) ==
    \A i \in 1..Len(q) : \A j \in 1..Len(q) : i < j => q[i].distance <= q[j].distance

\* C18: once filled, and after every feature of the traversal, the result set
\* has exactly limit slots and is sorted by distance, non-decreasing, so no
\* slot is farther than the back slot.
C18_ResultSetInvariant ==
    ResultSetFilled =>
        /\ Len(results_queue_) = data.num_results
        /\ SortedAscending(results_queue_)
        /\ \A i \in 1..Len(results_queue_) :
              results_queue_[i].distance <= results_queue_[Len(results_queue_)].distance

\* the feature just processed took the back slot of a set of two and was
\* sorted in front of a farther feature stored before it
C18_Witness ==
    /\ pc = "traverse"
    /\ in_layer
    /\ fi > 0
    /\ data.num_results = 2
    /\ results_queue_[1].enc = <<ti, li, fi>>
    /\ IsLive(results_queue_[2])
    /\ results_queue_[1].distance < results_queue_[2].distance

\* ---- C19
NonSentinel(r) == r.distance # DoubleMax

\* the slots OnOK is about to go through that are not sentinels, in order
NonSentinelSlots == SelectSeq(results_queue_, NonSentinel)

\* C19: the sentinel slots are a suffix of the result set; OnOK emits the
\* other slots and nothing else, in the order of the result set, so the
\* features array has as many elements as there are live slots, none of
\* them a hole, and is empty when no slot is live; the callback gets this
\* array.
C19_Finalization ==
    /\ [](ResultSetFilled =>
            \A i \in 1..Len(results_queue_) : \A j \in 1..Len(results_queue_) :
                (i < j /\ ~NonSentinel(results_queue_[i])) => ~NonSentinel(results_queue_[j]))
    /\ [](pc = "done" =>
            \A i \in 1..Len(features_array) : features_array[i].type = "Feature")
    /\ [][pc = "executed" =>
            /\ Len(features_array') = Len(NonSentinelSlots)
            /\ \A i \in 1..Len(NonSentinelSlots) :
                  /\ features_array'[i].type = "Feature"
                  /\ features_array'[i].enc = NonSentinelSlots[i].enc
                  /\ features_array'[i].id = NumberOfUint64(NonSentinelSlots[i].id)
                  /\ features_array'[i].tilequery.distance = NonSentinelSlots[i].distance
                  /\ features_array'[i].tilequery.layer = NonSentinelSlots[i].layer_name
                  /\ features_array'[i].properties
                        = NonSentinelSlots[i].properties_vector_materialized
            /\ NonSentinelSlots = <<>> => features_array' = <<>>
            /\ callback_calls'[Len(callback_calls')].result.features = features_array']_vars

\* a result with fewer features than the limit: the slots behind them were
\* sentinels
C19_Witness ==
    /\ pc = "done"
    /\ Len(features_array) > 0
    /\ Len(features_array) < data.num_results

\* a result without any feature
EmptyResult ==
    /\ pc = "done"
    /\ Len(data.tiles) > 0
    /\ features_array = <<>>

\* ---- C20
\* the id a feature of a tile is to be emitted with
SourceId(f) == IF f.has_id THEN f.id ELSE Uint64(0)

\* the has_id and id of a live slot are those of the feature stored in it,
\* whether it came into a free slot or over a duplicate
SlotIdDescribesFeature ==
    ResultSetFilled =>
        \A i \in LiveSlots :
            /\ results_queue_[i].has_id = EntryAt(results_queue_[i].enc).has_id
            /\ results_queue_[i].id = SourceId(EntryAt(results_queue_[i].enc))

\* every emitted feature has the number nearest to the id of its source
\* feature, 0 when that has none; an id of at most 53 bits is emitted as it is
EmittedIdIsNearestNumber ==
    pc = "done" =>
        \A i \in Emitted :
            LET f == EntryAt(features_array[i].enc)
            IN /\ features_array[i].id = NumberOfUint64(SourceId(f))
               /\ SourceId(f)[1] < 32 => features_array[i].id = SourceId(f)

\* a feature with id 1 was stored first and then overwritten by a closer
\* duplicate without id, which was emitted with id 0
OverwrittenByDuplicateWithoutId ==
    /\ pc = "done"
    /\ data.dedupe
    /\ Len(InputEntries) = 2
    /\ IsCandidate(InputEntries[1])
    /\ IsCandidate(InputEntries[2])
    /\ Related(InputEntries[1], InputEntries[2])
    /\ InputEntries[1].f.has_id
    /\ InputEntries[1].f.id = Uint64(1)
    /\ ~InputEntries[2].f.has_id
    /\ Meters(2) < Meters(1)
    /\ Len(features_array) = 1
    /\ EntryAt(features_array[1].enc) = InputEntries[2].f
    /\ features_array[1].tilequery.distance = Meters(2)
    /\ features_array[1].id = Uint64(0)

\* C20: the id and has_id of a slot describe the feature stored in it, and
\* every emitted feature has an id that equals the id of its source feature,
\* 0 when the source feature has none.
C20_EmittedIdIsSourceId ==
    /\ SlotIdDescribesFeature
    /\ pc = "done" =>
          \A i \in Emitted :
              /\ "id" \in DOMAIN features_array[i]
              /\ features_array[i].id = SourceId(EntryAt(features_array[i].enc))

\* ---- C21
\* the traversal positions of the features of the query
AllEncs ==
    {enc \in (1..MaxTiles + 1) \X (1..MaxLayers + 1) \X (1..MaxOffers + 1) :
        /\ enc[1] <= Len(data.tiles)
        /\ enc[2] <= Len(data.tiles[enc[1]])
        /\ enc[3] <= Len(data.tiles[enc[1]][enc[2]].features)}

EntryOf(enc) == [layer |-> data.tiles[enc[1]][enc[2]].name, f |-> EntryAt(enc)]

\* the features that pass the layer filter, the geometry filter, the safety
\* check and the radius cutoff
CandidateEncs == {enc \in AllEncs : IsCandidate(EntryOf(enc))}

MetersOf(enc) == Snap(data, closest_point(EntryAt(enc))).meters

\* the place of a candidate when the candidates are sorted by distance, those
\* of equal distance in encounter order
RankOf(candidates, enc) ==
    1 + Cardinality({other \in candidates :
                        \/ MetersOf(other) < MetersOf(enc)
                        \/ MetersOf(other) = MetersOf(enc) /\ EncBefore(other, enc)})

\* C21: with dedupe=false the output is the first limit candidates of that
\* order: the candidate of place p is the p-th emitted feature, with its own
\* distance, layer, geometry type, id and properties, and nothing else is
\* emitted.
C21_ReferenceTopK ==
    (pc = "done" /\ ~data.dedupe) =>
        LET candidates == CandidateEncs
        IN /\ Len(features_array) =
                 IF Cardinality(candidates) < data.num_results
                 THEN Cardinality(candidates) ELSE data.num_results
           /\ \A enc \in candidates :
                 LET place == RankOf(candidates, enc)
                 IN place <= data.num_results =>
                        /\ features_array[place].enc = enc
                        /\ Dist(place) = MetersOf(enc)
                        /\ Shows(place, EntryOf(enc))

\* without dedupe, of two candidates of the same distance the limit of 1
\* kept the one encountered first
C21_Witness ==
    /\ pc = "done"
    /\ ~data.dedupe
    /\ data.num_results = 1
    /\ \E enc \in CandidateEncs :
          /\ RankOf(CandidateEncs, enc) = 2
          /\ MetersOf(enc) = Dist(1)
          /\ EncBefore(features_array[1].enc, enc)

\* without dedupe a feature was filtered out and another one emitted
FilteredWithoutDedupe ==
    /\ pc = "done"
    /\ ~data.dedupe
    /\ AllEncs # CandidateEncs
    /\ features_array # <<>>

\* ---- C22
\* the feature the next pass of the feature loop processes, and its position
Processing == pc = "traverse" /\ in_layer /\ fi < Len(data.tiles[ti][li].features)

NextEnc == <<ti, li, fi + 1>>

\* the slot r holds a duplicate of the feature at enc
SlotIsDuplicateOf(r, enc) ==
    /\ r.layer_name = EntryOf(enc).layer
    /\ r.original_geometry_type = get_geometry_type(EntryAt(enc))
    /\ ~(r.has_id /\ EntryAt(enc).has_id /\ r.id # EntryAt(enc).id)
    /\ r.properties_vector = EntryAt(enc).properties

DuplicateSlots(q, enc) == {i \in 1..Len(q) : SlotIsDuplicateOf(q[i], enc)}

FirstDuplicateSlot(q, enc) ==
    CHOOSE i \in DuplicateSlots(q, enc) : \A j \in DuplicateSlots(q, enc) : i <= j

RemoveAt(q, i) == [k \in 1..(Len(q) - 1) |-> IF k < i THEN q[k] ELSE q[k + 1]]

\* the slot r holds the feature at enc
Holds(r, enc) ==
    /\ r.enc = enc
    /\ r.distance = MetersOf(enc)
    /\ r.coordinates = Snap(data, closest_point(EntryAt(enc))).ll
    /\ r.layer_name = EntryOf(enc).layer
    /\ r.original_geometry_type = get_geometry_type(EntryAt(enc))
    /\ r.has_id = EntryAt(enc).has_id
    /\ r.id = EntryAt(enc).id
    /\ r.properties_vector = EntryAt(enc).properties

\* the pass that processes a candidate of which some slot holds a duplicate
DuplicateStep ==
    /\ Processing
    /\ pc' = "traverse"
    /\ data.dedupe
    /\ IsCandidate(EntryOf(NextEnc))
    /\ DuplicateSlots(results_queue_, NextEnc) # {}

\* C22: with dedupe=true the first slot that holds a duplicate of the
\* candidate decides: when the candidate is not farther than this slot, this
\* slot and no other gets the candidate and the other slots keep their
\* content and their order; when it is farther, the result set stays as it
\* is, whatever other duplicates it holds.  The back slot is not given up for
\* the candidate.
C22_FirstDuplicateRule ==
    [][DuplicateStep =>
        LET first == FirstDuplicateSlot(results_queue_, NextEnc)
        IN IF MetersOf(NextEnc) <= results_queue_[first].distance
           THEN \E at \in 1..Len(results_queue_) :
                   /\ Holds(results_queue_'[at], NextEnc)
                   /\ RemoveAt(results_queue_', at) = RemoveAt(results_queue_, first)
           ELSE results_queue_' = results_queue_]_vars

\* a candidate was discarded because the first slot holding a duplicate of it
\* is closer, although a later slot holds a duplicate that is farther
C22_Witness ==
    /\ pc = "traverse"
    /\ in_layer
    /\ fi > 0
    /\ data.dedupe
    /\ IsCandidate(EntryOf(<<ti, li, fi>>))
    /\ \A i \in 1..Len(results_queue_) : results_queue_[i].enc # <<ti, li, fi>>
    /\ \E i \in DuplicateSlots(results_queue_, <<ti, li, fi>>) :
          /\ i = FirstDuplicateSlot(results_queue_, <<ti, li, fi>>)
          /\ results_queue_[i].distance < MetersOf(<<ti, li, fi>>)
          /\ \E j \in DuplicateSlots(results_queue_, <<ti, li, fi>>) :
                /\ j > i
                /\ results_queue_[j].distance > MetersOf(<<ti, li, fi>>)

\* a candidate overwrote the first of two slots that hold duplicates of it
OverwroteFirstOfTwo ==
    /\ pc = "traverse"
    /\ in_layer
    /\ fi > 0
    /\ data.dedupe
    /\ \E i \in 1..Len(results_queue_) : \E j \in 1..Len(results_queue_) :
          /\ i # j
          /\ results_queue_[i].enc = <<ti, li, fi>>
          /\ IsLive(results_queue_[j])
          /\ SlotIsDuplicateOf(results_queue_[j], <<ti, li, fi>>)

\* ---- C23
\* why the pass that processes the feature at enc stores nothing
GeometryRejects(enc) ==
    data.geometry_filter_type \notin {all, get_geometry_type(EntryAt(enc))}

NegativeRejects(enc) == closest_point(EntryAt(enc)).distance < 0

RadiusRejects(enc) == MetersOf(enc) > data.radius

FartherDuplicateRejects(q, enc) ==
    /\ data.dedupe
    /\ DuplicateSlots(q, enc) # {}
    /\ MetersOf(enc) > q[FirstDuplicateSlot(q, enc)].distance

NotCloserThanBackRejects(q, enc) ==
    /\ ~data.dedupe \/ DuplicateSlots(q, enc) = {}
    /\ MetersOf(enc) >= q[Len(q)].distance

Rejects(q, enc) ==
    \/ GeometryRejects(enc)
    \/ NegativeRejects(enc)
    \/ RadiusRejects(enc)
    \/ FartherDuplicateRejects(q, enc)
    \/ NotCloserThanBackRejects(q, enc)

\* the layer the traversal comes to next is excluded by the layer filter
LayerRejects ==
    /\ pc = "traverse"
    /\ ~in_layer
    /\ li < Len(data.tiles[ti])
    /\ data.layers # <<>>
    /\ \A n \in 1..Len(data.layers) : data.layers[n] # data.tiles[ti][li + 1].name

\* C23: a pass over a feature that the geometry filter, the negative-distance
\* check, the radius cutoff, the farther-duplicate rule or the
\* not-closer-than-back rule rejects leaves the result set as it is, slot by
\* slot; no feature of a layer that the layer filter excludes is processed,
\* and skipping the layer leaves the result set as it is.
C23_RejectedChangeNothing ==
    /\ [][(Processing /\ Rejects(results_queue_, NextEnc)) =>
            results_queue_' = results_queue_]_vars
    /\ [][LayerRejects => (results_queue_' = results_queue_ /\ ~in_layer')]_vars

\* a candidate that has no duplicate in a full result set and is as far as
\* its back slot was processed and is not in the set
C23_Witness ==
    /\ pc = "traverse"
    /\ in_layer
    /\ fi > 0
    /\ data.dedupe
    /\ IsCandidate(EntryOf(<<ti, li, fi>>))
    /\ DuplicateSlots(results_queue_, <<ti, li, fi>>) = {}
    /\ IsLive(results_queue_[Len(results_queue_)])
    /\ MetersOf(<<ti, li, fi>>) = results_queue_[Len(results_queue_)].distance
    /\ \A i \in 1..Len(results_queue_) : results_queue_[i].enc # <<ti, li, fi>>

\* features rejected for each of the other reasons were processed with a
\* live slot in the set
RejectedByGeometry ==
    /\ pc = "traverse" /\ in_layer /\ fi > 0 /\ LiveSlots # {}
    /\ GeometryRejects(<<ti, li, fi>>)

RejectedByNegativeDistance ==
    /\ pc = "traverse" /\ in_layer /\ fi > 0 /\ LiveSlots # {}
    /\ ~GeometryRejects(<<ti, li, fi>>)
    /\ NegativeRejects(<<ti, li, fi>>)

RejectedByRadius ==
    /\ pc = "traverse" /\ in_layer /\ fi > 0 /\ LiveSlots # {}
    /\ ~GeometryRejects(<<ti, li, fi>>)
    /\ ~NegativeRejects(<<ti, li, fi>>)
    /\ RadiusRejects(<<ti, li, fi>>)

RejectedByLayer ==
    /\ pc = "traverse" /\ ~in_layer /\ li > 0 /\ LiveSlots # {}
    /\ data.layers # <<>>
    /\ \A n \in 1..Len(data.layers) : data.layers[n] # data.tiles[ti][li].name

\* ---- C24
LiveCount(q) == Cardinality({i \in 1..Len(q) : q[i].distance # DoubleMax})

\* C24: while the result set exists the number of live slots never goes
\* down and goes up by at most one per step, and the distance at every
\* position of the set never goes up.
C24_MonotoneProgress ==
    [][(ResultSetFilled /\ ResultSetFilled') =>
          /\ Len(results_queue_') = Len(results_queue_)
          /\ LiveCount(results_queue_') >= LiveCount(results_queue_)
          /\ LiveCount(results_queue_') <= LiveCount(results_queue_) + 1
          /\ \A k \in 1..Len(results_queue_) :
                results_queue_'[k].distance <= results_queue_[k].distance]_vars

\* the second feature of the query overwrote the first, a farther duplicate:
\* the distance at position 1 went down and the number of live slots stayed
C24_Witness ==
    /\ pc = "traverse"
    /\ in_layer
    /\ <<ti, li, fi>> = <<1, 1, 2>>
    /\ data.dedupe
    /\ data.num_results = 2
    /\ IsCandidate(EntryOf(<<1, 1, 1>>))
    /\ MetersOf(<<1, 1, 2>>) < MetersOf(<<1, 1, 1>>)
    /\ LiveCount(results_queue_) = 1
    /\ results_queue_[1].enc = <<1, 1, 2>>
    /\ results_queue_[1].distance = MetersOf(<<1, 1, 2>>)

\* a feature went in front of a stored feature in a full set, and a farther
\* candidate offered before it is not in the set
AllPositionsCloser ==
    /\ pc = "traverse"
    /\ in_layer
    /\ fi > 0
    /\ data.num_results = 2
    /\ results_queue_[1].enc = <<ti, li, fi>>
    /\ LiveCount(results_queue_) = 2
    /\ \E enc \in CandidateEncs :
          /\ EncBefore(enc, <<ti, li, fi>>)
          /\ enc # results_queue_[2].enc
          /\ MetersOf(enc) > results_queue_[2].distance

\* ---- C25
\* some feature of the request was offered to the result set, or a layer of
\* it was entered
TraversalBegun == ti > 0 \/ li > 0 \/ fi > 0 \/ in_layer

\* C25: as long as a tile is not wrapped no layer is entered and no feature
\* is offered; the traversal has every tile wrapped; a request with a tile
\* that does not decompress, whichever tile it is, never comes to the
\* traversal: it fails with all slots unused and the callback gets the error.
C25_WrapBeforeTraverse ==
    /\ pc = "wrap" =>
          /\ Len(tiles) < Len(data.tiles)
          /\ ~TraversalBegun
          /\ LiveCount(results_queue_) = 0
    /\ pc = "traverse" =>
          /\ Len(tiles) = Len(data.tiles)
          /\ \A t \in 1..Len(data.tiles) : data.compression[t] # "gzip_corrupt"
    /\ TraversalBegun => Len(tiles) = Len(data.tiles) \/ pc \notin {"wrap", "traverse"}
    /\ (pc \in {"wrap", "traverse", "materialize", "materialized", "executed", "done",
                "failed", "errored"}
        /\ \E t \in 1..Len(data.tiles) : data.compression[t] = "gzip_corrupt") =>
          /\ pc \in {"wrap", "failed", "errored"}
          /\ ~TraversalBegun
          /\ LiveCount(results_queue_) = 0
          /\ features_array = <<>>
          /\ pc = "failed" => error_ = "decompress"
          /\ pc = "errored" =>
                callback_calls = <<[error |-> "decompress", result |-> JsUndefined]>>

\* the last tile of a request did not decompress; the tile before it has a
\* feature on the query point, which was not offered
C25_Witness ==
    /\ pc = "errored"
    /\ error_ = "decompress"
    /\ Len(data.tiles) = 2
    /\ data.compression[2] = "gzip_corrupt"
    /\ data.compression[1] = "gzip"
    /\ Len(data.tiles[1]) = 1
    /\ Len(data.tiles[1][1].features) > 0
    /\ IsCandidate(EntryOf(<<1, 1, 1>>))
    /\ LiveCount(results_queue_) = 0

====
